---- MODULE Spec2Model ----
(***************************************************************************)
(* Model of the Fal.ai manifold pipe (src/openwebui-function-fal-ai.py):   *)
(* class Pipe with its Valves, emit_status and the coroutine pipe().       *)
(*                                                                         *)
(* Strings are TLA+ strings; substring tests, strip and join are computed  *)
(* character by character as Python computes them.  A Python dict is a     *)
(* function whose DOMAIN is its key set; dict values carry a type tag      *)
(* (t) beside the value (v) so that a preset name, a nested mapping, a     *)
(* number and a boolean stay distinguishable.  Dicts and the other         *)
(* structured values are built with :> and @@ and read with r.field.       *)
(***************************************************************************)
EXTENDS Integers, Sequences, FiniteSets, TLC

VARIABLES
    valves,        \* self.valves: the operator's configuration
    environ,       \* os.environ["FAL_KEY"], process-wide
    emitter,       \* self.emitter, one field of the shared Pipe instance
    pc,            \* pc[r]: where invocation r of pipe() stands
    body,          \* body[r]: the request dict invocation r was called with
    sink,          \* sink[r]: the __event_emitter__ invocation r was called with
    api_model_id,  \* local api_model_id of invocation r
    arguments,     \* local arguments dict of invocation r
    inflight,      \* the emitter callback invocation r is awaiting, if any
    result,        \* local result of invocation r, once the backend call resolved
    caught,        \* str(e) of the exception invocation r's except clause holds
    ret,           \* the string invocation r returned / the error it raised
    trace          \* trace[r]: what invocation r did to the outside, in order

vars == <<valves, environ, emitter, pc, body, sink, api_model_id, arguments,
          inflight, result, caught, ret, trace>>

-----------------------------------------------------------------------------
(* Bounds of the model. *)

NumRequests == 2      \* concurrent invocations of pipe() on the one instance

Requests == 1..NumRequests

-----------------------------------------------------------------------------
(* Python string primitives. *)

\* sub in s
Contains(sub, s) ==
    \E i \in 1..(Len(s) - Len(sub) + 1) : SubSeq(s, i, i + Len(sub) - 1) = sub

IsSpace(c) == c \in {" ", "\n", "\t"}

RECURSIVE LStrip(_)
LStrip(s) ==
    IF Len(s) > 0 /\ IsSpace(SubSeq(s, 1, 1))
    THEN LStrip(SubSeq(s, 2, Len(s)))
    ELSE s

RECURSIVE RStrip(_)
RStrip(s) ==
    IF Len(s) > 0 /\ IsSpace(SubSeq(s, Len(s), Len(s)))
    THEN RStrip(SubSeq(s, 1, Len(s) - 1))
    ELSE s

\* s.strip()
Strip(s) == RStrip(LStrip(s))

\* sep.join(parts)
RECURSIVE Join(_, _)
Join(parts, sep) ==
    IF Len(parts) = 0 THEN ""
    ELSE IF Len(parts) = 1 THEN parts[1]
    ELSE parts[1] \o sep \o Join(Tail(parts), sep)

-----------------------------------------------------------------------------
(* Valves defaults. *)

DefaultModelId == "fal-ai/flux-pro/v1.1-ultra"
DefaultWidth == 800
DefaultHeight == 1422
DefaultSteps == 28

-----------------------------------------------------------------------------
(* Step 1 of pipe(): the model map. *)

model_map ==
    [k \in {"falai-flux-ultra", "falai-flux-2-pro", "falai-recraft-v3",
            "falai-seedream", "falai-hunyuan", "falai-imagen4",
            "falai-z-image"} |->
        CASE k = "falai-flux-ultra" -> "fal-ai/flux-pro/v1.1-ultra"
          [] k = "falai-flux-2-pro" -> "fal-ai/flux-2-pro"
          [] k = "falai-recraft-v3" -> "fal-ai/recraft/v3/text-to-image"
          [] k = "falai-seedream"   -> "fal-ai/bytedance/seedream/v4.5/text-to-image"
          [] k = "falai-hunyuan"    -> "fal-ai/hunyuan-image/v3/text-to-image"
          [] k = "falai-imagen4"    -> "fal-ai/imagen4/preview/fast"
          [] k = "falai-z-image"    -> "fal-ai/z-image/turbo"]

\* model_map.get(request_model_id, self.valves.MODEL_ID)
ResolveModel(request_model_id, v) ==
    IF request_model_id \in DOMAIN model_map
    THEN model_map[request_model_id]
    ELSE v.MODEL_ID

-----------------------------------------------------------------------------
(* Step 2 of pipe(): the prompt.  A message is [role, content]; a content  *)
(* is [kind, text, parts] with kind "str" (text holds it), "list" (parts   *)
(* holds the typed parts [type, text]) or "none" (any other Python value). *)

RECURSIVE TextParts(_)
TextParts(parts) ==
    IF Len(parts) = 0 THEN <<>>
    ELSE IF Head(parts).type = "text"
         THEN <<Head(parts).text>> \o TextParts(Tail(parts))
         ELSE TextParts(Tail(parts))

PromptOfContent(content) ==
    IF content.kind = "list" THEN Strip(Join(TextParts(content.parts), " "))
    ELSE IF content.kind = "str" THEN content.text
    ELSE ""

\* the loop over reversed(messages), which breaks at the first user message
RECURSIVE ExtractPrompt(_)
ExtractPrompt(messages) ==
    IF Len(messages) = 0 THEN ""
    ELSE IF messages[Len(messages)].role = "user"
         THEN PromptOfContent(messages[Len(messages)].content)
         ELSE ExtractPrompt(SubSeq(messages, 1, Len(messages) - 1))

-----------------------------------------------------------------------------
(* Step 4 of pipe(): the arguments. *)

StrV(s) == ("t" :> "str") @@ ("v" :> s)
IntV(n) == ("t" :> "int") @@ ("v" :> n)
BoolV(b) == ("t" :> "bool") @@ ("v" :> b)
MapV(m) == ("t" :> "map") @@ ("v" :> m)

get_recraft_size(ratio) ==
    CASE ratio = "1:1"  -> "square_hd"
      [] ratio = "16:9" -> "landscape_16_9"
      [] ratio = "9:16" -> "portrait_16_9"
      [] ratio = "4:3"  -> "landscape_4_3"
      [] ratio = "3:4"  -> "portrait_4_3"
      [] OTHER          -> "square_hd"

NestedSize(v) == MapV(("width" :> v.WIDTH) @@ ("height" :> v.HEIGHT))

BaseArguments(prompt, v) ==
    ("prompt" :> StrV(prompt)) @@
    ("enable_safety_checker" :> BoolV(v.ENABLE_SAFETY_CHECKER))

\* the keyword tests of the if/elif chain over api_model_id
IsRecraft(target) == Contains("recraft", target)
IsFluxUltra(target) == Contains("flux-pro/v1.1-ultra", target)
IsImagen4(target) == Contains("imagen4", target)
\* faulty variant: a narrower keyword
IsHunyuanImageOnly(target) == Contains("hunyuan-image", target)
IsHunyuan(target) == Contains("hunyuan", target)
\* faulty variant: a narrower keyword
IsFlux2ProSlash(target) == Contains("flux-2-pro/", target)
IsFlux2Pro(target) == Contains("flux-2-pro", target)
IsSeedreamOrZImage(target) ==
    Contains("seedream", target) \/ Contains("z-image", target)

\* the keys each branch adds
RecraftArguments(v) ==
    ("image_size" :> StrV(get_recraft_size(v.ASPECT_RATIO))) @@
    ("style" :> StrV(v.STYLE))

FluxUltraArguments(v) ==
    ("aspect_ratio" :> StrV(v.ASPECT_RATIO)) @@
    ("raw" :> BoolV(v.RAW)) @@
    ("output_format" :> StrV("jpeg"))

Imagen4Arguments(v) == ("aspect_ratio" :> StrV(v.ASPECT_RATIO))

HunyuanArguments(v) ==
    ("image_size" :> NestedSize(v)) @@
    ("num_inference_steps" :> IntV(v.NUM_INFERENCE_STEPS))

\* faulty variant: the branch also sends a preset image_size
Flux2ProArgumentsWithSize(v) ==
    ("image_size" :> StrV(get_recraft_size(v.ASPECT_RATIO))) @@
    ("width" :> IntV(v.WIDTH)) @@
    ("height" :> IntV(v.HEIGHT)) @@
    ("output_format" :> StrV("jpeg"))

Flux2ProArguments(v) ==
    ("width" :> IntV(v.WIDTH)) @@
    ("height" :> IntV(v.HEIGHT)) @@
    ("output_format" :> StrV("jpeg"))

SeedreamArguments(v) == ("image_size" :> NestedSize(v))

FallbackArguments(v) == ("image_size" :> NestedSize(v))

\* the if/elif chain: the first branch whose keyword matches decides
FamilyArguments(target, v) ==
    IF IsRecraft(target) THEN RecraftArguments(v)
    ELSE IF IsFluxUltra(target) THEN FluxUltraArguments(v)
    ELSE IF IsImagen4(target) THEN Imagen4Arguments(v)
    ELSE IF IsHunyuan(target) THEN HunyuanArguments(v)
    ELSE IF IsFlux2Pro(target) THEN Flux2ProArguments(v)
    ELSE IF IsSeedreamOrZImage(target) THEN SeedreamArguments(v)
    ELSE FallbackArguments(v)

BuildArguments(target, prompt, v) ==
    FamilyArguments(target, v) @@ BaseArguments(prompt, v)

-----------------------------------------------------------------------------
(* The status sinks.  A sink is the callback a caller passes as            *)
(* __event_emitter__; NoSink is Python's None.  Whether a call of a sink   *)
(* raises is the sink's business and is chosen when the await completes.   *)

NoSink == [owner |-> 0]
SinkOf(r) == [owner |-> r]

\* what the backend call can come back with: fal_client's handler.get()
\* returns a dict (with or without "images"), or None, or raises
ResultDict(has_images, urls) ==
    ("kind" :> "dict") @@ ("has_images" :> has_images) @@
    ("urls" :> urls) @@ ("error" :> "")
ResultNone ==
    ("kind" :> "none") @@ ("has_images" :> FALSE) @@
    ("urls" :> <<>>) @@ ("error" :> "")
ResultRaise(msg) ==
    ("kind" :> "raise") @@ ("has_images" :> FALSE) @@
    ("urls" :> <<>>) @@ ("error" :> msg)
NoResult ==
    ("kind" :> "unset") @@ ("has_images" :> FALSE) @@
    ("urls" :> <<>>) @@ ("error" :> "")

\* str(result) inside the f-string of line 206
Repr(res) ==
    IF res.kind = "none" THEN "None"
    ELSE IF ~res.has_images THEN "{}"
    ELSE "{'images': []}"

\* entries of trace[r]
StatusEvent(to, text, done) ==
    ("ev" :> "status") @@ ("to" :> to) @@ ("text" :> text) @@ ("done" :> done)
SubmitEvent(target) ==
    ("ev" :> "submit") @@ ("to" :> NoSink) @@ ("text" :> target) @@ ("done" :> FALSE)
ResolvedEvent(kind) ==
    ("ev" :> "resolved") @@ ("to" :> NoSink) @@ ("text" :> kind) @@ ("done" :> FALSE)

SinkErrorText == "sink failed"

\* emit_status: "if self.emitter"
\* faulty variant: the test never succeeds, every event is dropped
IsSetNever(e) == FALSE
IsSet(e) == e # NoSink

\* step 3 of pipe(): "if not self.valves.FAL_KEY"
\* faulty variant: tests "is None", which the empty string passes
CredentialIsNone(v) == v.FAL_KEY = "None"
CredentialMissing(v) == v.FAL_KEY = ""

HostEnvKey == "env-key-of-the-host"

-----------------------------------------------------------------------------
(* pipe(), cut at its awaits.  Between two awaits a coroutine runs alone.   *)

\* lines 186-196: the backend call is handed to the executor
SubmitBackend(r, tr) ==
    /\ trace' = [trace EXCEPT ![r] = tr \o <<SubmitEvent(api_model_id'[r])>>]
    /\ pc' = [pc EXCEPT ![r] = "awaiting_result"]
    /\ ret' = ret

\* return <text>
Return(r, text) ==
    /\ pc' = [pc EXCEPT ![r] = "returned"]
    /\ ret' = [ret EXCEPT ![r] = text]

\* an exception leaves pipe()
Escape(r, text) ==
    /\ pc' = [pc EXCEPT ![r] = "raised"]
    /\ ret' = [ret EXCEPT ![r] = text]

\* lines 73-184, up to the await inside emit_status
CallWith(r, model, messages, s) ==
    /\ pc[r] = "idle"
    /\ emitter' = s
    /\ body' = [body EXCEPT ![r] = ("model" :> model) @@ ("messages" :> messages)]
    /\ sink' = [sink EXCEPT ![r] = s]
    /\ UNCHANGED <<valves, result, caught>>
    /\ LET request_model_id == body'[r].model
           prompt == ExtractPrompt(body'[r].messages)
       IN
       IF Len(body'[r].messages) = 0 THEN
            /\ Return(r, "Error: No messages found.")
            /\ UNCHANGED <<environ, api_model_id, arguments, inflight, trace>>
       ELSE IF prompt = "" THEN
            /\ Return(r, "Error: No prompt found.")
            /\ UNCHANGED <<environ, api_model_id, arguments, inflight, trace>>
       ELSE IF CredentialMissing(valves) THEN
            /\ Return(r, "Error: FAL_KEY not set in valves.")
            /\ UNCHANGED <<environ, api_model_id, arguments, inflight, trace>>
       ELSE
            /\ environ' = valves.FAL_KEY
            /\ api_model_id' =
                 [api_model_id EXCEPT ![r] = ResolveModel(request_model_id, valves)]
            /\ arguments' =
                 [arguments EXCEPT ![r] =
                    BuildArguments(api_model_id'[r], prompt, valves)]
            /\ IF ~IsSet(emitter') THEN
                    \* emit_status does nothing and does not suspend
                    /\ inflight' = inflight
                    /\ SubmitBackend(r, trace[r])
               ELSE
                    /\ inflight' = [inflight EXCEPT ![r] = emitter']
                    /\ trace' = [trace EXCEPT ![r] = @ \o
                         <<StatusEvent(emitter',
                              "Generating with " \o api_model_id'[r] \o "...",
                              FALSE)>>]
                    /\ pc' = [pc EXCEPT ![r] = "emit_submitting"]
                    /\ ret' = ret

\* the await of line 184 completes: the sink returned or raised
Dispatch(r) ==
    /\ pc[r] = "emit_submitting"
    /\ UNCHANGED <<valves, environ, emitter, body, sink, api_model_id,
                   arguments, result, caught>>
    /\ inflight' = [inflight EXCEPT ![r] = NoSink]
    /\ \E raises \in BOOLEAN :
         IF raises
         THEN Escape(r, SinkErrorText) /\ trace' = trace
         ELSE SubmitBackend(r, trace[r])

\* lines 208-210 up to the await inside emit_status
ExceptClause(r, msg, tr) ==
    /\ caught' = [caught EXCEPT ![r] = msg]
    /\ IF ~IsSet(emitter) THEN
            /\ inflight' = [inflight EXCEPT ![r] = NoSink]
            /\ trace' = [trace EXCEPT ![r] = tr]
            /\ Return(r, "Error: " \o msg)
       ELSE
            /\ inflight' = [inflight EXCEPT ![r] = emitter]
            /\ trace' = [trace EXCEPT ![r] = tr \o
                 <<StatusEvent(emitter, "Error: " \o msg, TRUE)>>]
            /\ pc' = [pc EXCEPT ![r] = "emit_error"]
            /\ ret' = ret

\* lines 198-206 (and 208 when the call raised), up to the next await
ResolveWith(r, res) ==
    /\ pc[r] = "awaiting_result"
    /\ UNCHANGED <<valves, environ, emitter, body, sink, api_model_id, arguments>>
    /\ LET tr == trace[r] \o <<ResolvedEvent(res.kind)>> IN
       IF res.kind = "raise" THEN
            /\ result' = result
            /\ ExceptClause(r, res.error, tr)
       ELSE
            /\ result' = [result EXCEPT ![r] = res]
            /\ IF res.kind = "dict" /\ res.has_images /\ Len(res.urls) > 0 THEN
                    IF res.urls[1] # "" THEN
                        IF ~IsSet(emitter) THEN
                            /\ Return(r, "![Generated Image](" \o res.urls[1] \o ")")
                            /\ trace' = [trace EXCEPT ![r] = tr]
                            /\ UNCHANGED <<inflight, caught>>
                        ELSE
                            /\ inflight' = [inflight EXCEPT ![r] = emitter]
                            /\ trace' = [trace EXCEPT ![r] = tr \o
                                 <<StatusEvent(emitter, "Generated successfully", TRUE)>>]
                            /\ pc' = [pc EXCEPT ![r] = "emit_success"]
                            /\ UNCHANGED <<ret, caught>>
                    ELSE
                        /\ Return(r, "Error: Image URL missing.")
                        /\ trace' = [trace EXCEPT ![r] = tr]
                        /\ UNCHANGED <<inflight, caught>>
               ELSE
                    /\ Return(r, "Error: Generation failed. Result: " \o Repr(res))
                    /\ trace' = [trace EXCEPT ![r] = tr]
                    /\ UNCHANGED <<inflight, caught>>

\* the await of line 201 completes; a raising sink lands in the except clause
SuccessEmitted(r) ==
    /\ pc[r] = "emit_success"
    /\ UNCHANGED <<valves, environ, emitter, body, sink, api_model_id,
                   arguments, result>>
    /\ \E raises \in BOOLEAN :
         IF raises
         THEN ExceptClause(r, SinkErrorText, trace[r])
         ELSE /\ Return(r, "![Generated Image](" \o result[r].urls[1] \o ")")
              /\ inflight' = [inflight EXCEPT ![r] = NoSink]
              /\ UNCHANGED <<trace, caught>>

\* the await of line 209 completes; nothing catches a raising sink here
ErrorEmitted(r) ==
    /\ pc[r] = "emit_error"
    /\ UNCHANGED <<valves, environ, emitter, body, sink, api_model_id,
                   arguments, result, caught, trace>>
    /\ inflight' = [inflight EXCEPT ![r] = NoSink]
    /\ \E raises \in BOOLEAN :
         IF raises
         THEN Escape(r, SinkErrorText)
         ELSE Return(r, "Error: " \o caught[r])

-----------------------------------------------------------------------------
(* The inputs. *)

StrContent(s) == ("kind" :> "str") @@ ("text" :> s) @@ ("parts" :> <<>>)
ListContent(ps) == ("kind" :> "list") @@ ("text" :> "") @@ ("parts" :> ps)
NoneContent == ("kind" :> "none") @@ ("text" :> "") @@ ("parts" :> <<>>)
Msg(role, content) == ("role" :> role) @@ ("content" :> content)
TextPart(s) == ("type" :> "text") @@ ("text" :> s)
ImagePart == ("type" :> "image_url") @@ ("text" :> "ignored")

Conversations ==
    { <<>>,
      <<Msg("user", StrContent("a cat"))>>,
      <<Msg("user", StrContent("   "))>>,
      <<Msg("user", StrContent(""))>>,
      <<Msg("assistant", StrContent("hello"))>>,
      <<Msg("user", StrContent("a cat")), Msg("assistant", StrContent("hello"))>>,
      <<Msg("user", StrContent("a cat")),
        Msg("user", ListContent(<<TextPart("A"), ImagePart, TextPart("B")>>))>>,
      <<Msg("user", StrContent("a cat")),
        Msg("user", ListContent(<<TextPart(" "), TextPart("")>>))>>,
      <<Msg("user", ListContent(<<ImagePart>>))>>,
      <<Msg("user", StrContent("a cat")), Msg("user", NoneContent)>>,
      <<Msg("system", StrContent("be brief")),
        Msg("user", ListContent(<<TextPart(" A ")>>))>> }

\* the ids pipes() advertises, bare and as a host hands them over
\* (prefixed with the function id, or otherwise decorated)
AdvertisedIds == DOMAIN model_map \cup {"falai-custom"}
RequestedIds ==
    AdvertisedIds \cup
    {"falai_master." \o id : id \in {"falai-z-image", "falai-hunyuan", "falai-custom"}}
    \cup {"falai-recraft-v3:latest", ""}

CustomTargets ==
    { DefaultModelId,
      "fal-ai/recraft-hunyuan-lora",
      "fal-ai/hunyuan-imagen4-mix",
      "fal-ai/hunyuan-video",
      "fal-ai/flux-2",
      "fal-ai/flux-2-pro/edit",
      "fal-ai/flux-ultra",
      "fal-ai/stable-diffusion-v35" }

ValvesOf(key, target, ratio) ==
    ("FAL_KEY" :> key) @@ ("MODEL_ID" :> target) @@
    ("WIDTH" :> DefaultWidth) @@ ("HEIGHT" :> DefaultHeight) @@
    ("ASPECT_RATIO" :> ratio) @@ ("STYLE" :> "realistic_image") @@ ("RAW" :> FALSE) @@
    ("NUM_INFERENCE_STEPS" :> DefaultSteps) @@ ("ENABLE_SAFETY_CHECKER" :> FALSE)

Outcomes ==
    { ResultDict(TRUE, <<"http://x/y.png">>),
      ResultDict(TRUE, <<>>),
      ResultDict(TRUE, <<"">>),
      ResultDict(FALSE, <<>>),
      ResultNone,
      ResultRaise("backend unavailable") }

-----------------------------------------------------------------------------
(* The state after Pipe() was constructed and the operator set the valves. *)

InitRequests ==
    /\ environ = HostEnvKey
    /\ emitter = NoSink
    /\ pc = [r \in Requests |-> "idle"]
    /\ body = [r \in Requests |-> ("model" :> "") @@ ("messages" :> <<>>)]
    /\ sink = [r \in Requests |-> NoSink]
    /\ api_model_id = [r \in Requests |-> ""]
    /\ arguments = [r \in Requests |-> <<>>]
    /\ inflight = [r \in Requests |-> NoSink]
    /\ result = [r \in Requests |-> NoResult]
    /\ caught = [r \in Requests |-> ""]
    /\ ret = [r \in Requests |-> ""]
    /\ trace = [r \in Requests |-> <<>>]

\* the backend call resolves, in any of the ways it can
Resolve(r) == \E res \in Outcomes : ResolveWith(r, res)

(* Concurrent invocations on the one instance. *)

Init ==
    /\ valves \in {ValvesOf(k, DefaultModelId, "16:9") : k \in {"", "fal-key-1"}}
    /\ InitRequests

ConcurrentConversations == {<<>>, <<Msg("user", StrContent("a cat"))>>}

Call(r) ==
    \E conv \in ConcurrentConversations, s \in {NoSink, SinkOf(r)} :
        CallWith(r, "falai-z-image", conv, s)

Next ==
    \E r \in Requests :
        \/ Call(r)
        \/ Dispatch(r)
        \/ Resolve(r)
        \/ SuccessEmitted(r)
        \/ ErrorEmitted(r)

Spec == Init /\ [][Next]_vars

(* One invocation, over the requests and configurations that routing,      *)
(* prompt extraction and argument building distinguish.                    *)

InitRouting ==
    /\ valves \in {ValvesOf(k, t, a) : k \in {"", "fal-key-1"},
                                        t \in CustomTargets,
                                        a \in {"16:9", "9:16", "21:9"}}
    /\ InitRequests

CallRouting(r) ==
    \E m \in RequestedIds, conv \in Conversations, s \in {NoSink, SinkOf(r)} :
        CallWith(r, m, conv, s)

NextRouting ==
    \E r \in {1} :
        \/ CallRouting(r)
        \/ Dispatch(r)
        \/ Resolve(r)
        \/ SuccessEmitted(r)
        \/ ErrorEmitted(r)

SpecRouting == InitRouting /\ [][NextRouting]_vars

-----------------------------------------------------------------------------
(* Vocabulary of the properties. *)

StartsWith(prefix, s) ==
    Len(s) >= Len(prefix) /\ SubSeq(s, 1, Len(prefix)) = prefix

\* invocation r passed the pre-dispatch checks
Routed(r) == trace[r] # <<>>

Submits(r) == {i \in DOMAIN trace[r] : trace[r][i].ev = "submit"}
Statuses(r) == {i \in DOMAIN trace[r] : trace[r][i].ev = "status"}
Terminals(r) == {i \in Statuses(r) : trace[r][i].done}
Resolutions(r) == {i \in DOMAIN trace[r] : trace[r][i].ev = "resolved"}

\* the prompt as section 4.2 of the specification words it: the text of the
\* most recent user message, Empty when it is empty after trimming
SpecText(content) ==
    IF content.kind = "str" THEN content.text
    ELSE IF content.kind = "list" THEN Join(TextParts(content.parts), " ")
    ELSE ""
UserMessages(messages) == {i \in DOMAIN messages : messages[i].role = "user"}
LastUser(messages) ==
    CHOOSE i \in UserMessages(messages) : \A j \in UserMessages(messages) : j <= i
SpecPromptEmpty(messages) ==
    \/ UserMessages(messages) = {}
    \/ Strip(SpecText(messages[LastUser(messages)].content)) = ""

\* the two dimension styles of section 4.3
PresetImageSize(args) ==
    "image_size" \in DOMAIN args /\ args["image_size"].t = "str"
NestedImageSize(args) ==
    /\ "image_size" \in DOMAIN args
    /\ args["image_size"].t = "map"
    /\ DOMAIN args["image_size"].v = {"width", "height"}
FlatWidthHeight(args) == {"width", "height"} \subseteq DOMAIN args
RatioStyle(args) == "aspect_ratio" \in DOMAIN args \/ PresetImageSize(args)
PixelStyle(args) == FlatWidthHeight(args) \/ NestedImageSize(args)

Flux2Shape(args) ==
    /\ FlatWidthHeight(args)
    /\ "output_format" \in DOMAIN args /\ args["output_format"] = StrV("jpeg")
    /\ "image_size" \notin DOMAIN args
UltraShape(args, v) ==
    /\ "aspect_ratio" \in DOMAIN args
    /\ args["aspect_ratio"] = StrV(v.ASPECT_RATIO)
    /\ "raw" \in DOMAIN args
    /\ "output_format" \in DOMAIN args /\ args["output_format"] = StrV("jpeg")
HunyuanShape(args) ==
    /\ NestedImageSize(args)
    /\ "num_inference_steps" \in DOMAIN args
    /\ "style" \notin DOMAIN args

-----------------------------------------------------------------------------
(* C1: every invocation that submitted the backend call and returned has   *)
(* emitted exactly one terminal status event (done = TRUE), after the      *)
(* backend call resolved, whatever the outcome.  Stated for invocations    *)
(* that were given a status sink.                                          *)
C1_TerminalStatusExactlyOnce ==
    \A r \in Requests :
        (pc[r] = "returned" /\ Submits(r) # {} /\ sink[r] # NoSink) =>
            /\ Cardinality(Terminals(r)) = 1
            /\ \A i \in Terminals(r) : \E j \in Resolutions(r) : j < i

(* C2: no error escapes pipe(): no invocation ends by raising, whatever    *)
(* the backend and the status sink do.                                     *)
C2_NoErrorEscapes ==
    \A r \in Requests : pc[r] # "raised"

(* C3: a requested model id that contains a registered short id as a       *)
(* substring resolves to that entry's backend target.                      *)
C3_SubstringResolution ==
    \A r \in Requests : \A k \in DOMAIN model_map :
        (Routed(r) /\ Contains(k, body[r].model)) =>
            api_model_id[r] = model_map[k]

(* C4: every status event produced for an invocation that was given a     *)
(* sink is delivered to that sink, never to the sink of another            *)
(* invocation, under every interleaving.                                   *)
C4_EventsReachOwnSink ==
    \A r \in Requests :
        sink[r] # NoSink => \A i \in Statuses(r) : trace[r][i].to = sink[r]

(* C5 as claimed: every request handled with an empty FAL_KEY returns an   *)
(* error string mentioning the credential, emits no status event, submits  *)
(* no backend call and leaves the environment value unchanged.             *)
C5_MissingCredentialAlwaysNamed ==
    \A r \in Requests :
        (pc[r] # "idle" /\ valves.FAL_KEY = "") =>
            /\ pc[r] = "returned"
            /\ Contains("FAL_KEY", ret[r])
            /\ trace[r] = <<>>
            /\ environ = HostEnvKey

(* C5 amended: every request handled with an empty FAL_KEY returns an      *)
(* error string, which mentions the credential whenever the request has    *)
(* messages and a non-empty extracted prompt; no status event is emitted,  *)
(* no backend call is submitted, the environment value is unchanged.       *)
C5_MissingCredential ==
    \A r \in Requests :
        (pc[r] # "idle" /\ valves.FAL_KEY = "") =>
            /\ pc[r] = "returned"
            /\ StartsWith("Error:", ret[r])
            /\ (Len(body[r].messages) > 0 /\ ExtractPrompt(body[r].messages) # "")
                    => Contains("FAL_KEY", ret[r])
            /\ trace[r] = <<>>
            /\ environ = HostEnvKey

C5_Witness ==
    \E r \in Requests :
        /\ valves.FAL_KEY = ""
        /\ pc[r] = "returned"
        /\ ret[r] = "Error: FAL_KEY not set in valves."

(* C6: when the conversation has no user message, or the most recent user  *)
(* message's text is empty after trimming (string content or typed         *)
(* parts), the request fails before dispatch with an error string and no   *)
(* status event.                                                           *)
C6_EmptyPromptFailsEarly ==
    \A r \in Requests :
        (pc[r] # "idle" /\ SpecPromptEmpty(body[r].messages)) =>
            /\ pc[r] = "returned"
            /\ StartsWith("Error:", ret[r])
            /\ trace[r] = <<>>

(* C7 as claimed: every backend target containing "hunyuan" gets a nested  *)
(* image_size, num_inference_steps and no style.                           *)
C7_HunyuanAnywhere ==
    \A r \in Requests :
        (Routed(r) /\ Contains("hunyuan", api_model_id[r])) =>
            HunyuanShape(arguments[r])

(* C7 amended: every backend target containing "hunyuan" and none of       *)
(* "recraft", "flux-pro/v1.1-ultra", "imagen4" gets a nested image_size,   *)
(* num_inference_steps and no style.                                       *)
C7_HunyuanFirstMatch ==
    \A r \in Requests :
        ( /\ Routed(r)
          /\ Contains("hunyuan", api_model_id[r])
          /\ ~Contains("recraft", api_model_id[r])
          /\ ~Contains("flux-pro/v1.1-ultra", api_model_id[r])
          /\ ~Contains("imagen4", api_model_id[r]) ) =>
            HunyuanShape(arguments[r])

C7_Witness ==
    \E r \in Requests :
        /\ Routed(r)
        /\ body[r].model = "falai-custom"
        /\ api_model_id[r] = "fal-ai/hunyuan-video"
        /\ HunyuanShape(arguments[r])

(* C8: every built argument set gives the dimensions in exactly one style  *)
(* (ratio or pixel), and style, raw and num_inference_steps appear only    *)
(* for the family that defines them, never two of them together.           *)
C8_OneDimensionStyle ==
    \A r \in Requests :
        Routed(r) =>
            LET args == arguments[r]
                extras == {"style", "raw", "num_inference_steps"} \cap DOMAIN args
            IN  /\ RatioStyle(args) # PixelStyle(args)
                /\ ~("aspect_ratio" \in DOMAIN args /\ "image_size" \in DOMAIN args)
                /\ ~(FlatWidthHeight(args) /\ "image_size" \in DOMAIN args)
                /\ Cardinality(extras) <= 1
                /\ "style" \in extras => Contains("recraft", api_model_id[r])
                /\ "raw" \in extras => Contains("ultra", api_model_id[r])
                /\ "num_inference_steps" \in extras =>
                        Contains("hunyuan", api_model_id[r])
                /\ {"prompt", "enable_safety_checker"} \subseteq DOMAIN args

C8_Witness ==
    \E r \in Requests :
        /\ Routed(r)
        /\ Contains("recraft", api_model_id[r])
        /\ Contains("hunyuan", api_model_id[r])
        /\ RatioStyle(arguments[r])
        /\ "style" \in DOMAIN arguments[r]

(* C9 as claimed: a target containing "flux-2" (and no keyword of an       *)
(* earlier family of the table) gets flat width and height with            *)
(* output_format "jpeg" and no image_size; a target containing "ultra"     *)
(* gets the raw aspect_ratio token, the raw flag and output_format "jpeg". *)
C9_TableSubstrings ==
    \A r \in Requests :
        Routed(r) =>
            LET t == api_model_id[r] IN
            /\ ( /\ Contains("flux-2", t)
                 /\ ~Contains("recraft", t) /\ ~Contains("ultra", t)
                 /\ ~Contains("imagen4", t) /\ ~Contains("hunyuan", t) )
                    => Flux2Shape(arguments[r])
            /\ (Contains("ultra", t) /\ ~Contains("recraft", t))
                    => UltraShape(arguments[r], valves)

(* C9 amended: the same with the substrings the classification uses: a     *)
(* target containing "flux-2-pro" (and none of "recraft",                  *)
(* "flux-pro/v1.1-ultra", "imagen4", "hunyuan") gets the flat shape; a     *)
(* target containing "flux-pro/v1.1-ultra" (and not "recraft") gets the    *)
(* ultra shape.                                                            *)
C9_CodeSubstrings ==
    \A r \in Requests :
        Routed(r) =>
            LET t == api_model_id[r] IN
            /\ ( /\ Contains("flux-2-pro", t)
                 /\ ~Contains("recraft", t) /\ ~Contains("flux-pro/v1.1-ultra", t)
                 /\ ~Contains("imagen4", t) /\ ~Contains("hunyuan", t) )
                    => Flux2Shape(arguments[r])
            /\ (Contains("flux-pro/v1.1-ultra", t) /\ ~Contains("recraft", t))
                    => UltraShape(arguments[r], valves)

C9_Witness ==
    \E r \in Requests :
        /\ Routed(r)
        /\ body[r].model = "falai-custom"
        /\ api_model_id[r] = "fal-ai/flux-2-pro/edit"
        /\ Flux2Shape(arguments[r])

(* C10: the backend call is submitted at most once per invocation, only    *)
(* after the "submitting" status event (done = FALSE, naming the target)   *)
(* went to the invocation's sink when it has one, and never on an          *)
(* invocation that failed a pre-dispatch check.                            *)
C10_SubmittingBeforeDispatch ==
    \A r \in Requests :
        /\ Cardinality(Submits(r)) <= 1
        /\ \A i \in Submits(r) :
            /\ trace[r][i].text = api_model_id[r]
            /\ sink[r] # NoSink =>
                \E j \in Statuses(r) :
                    /\ j < i
                    /\ ~trace[r][j].done
                    /\ trace[r][j].to = sink[r]
                    /\ Contains(api_model_id[r], trace[r][j].text)
        /\ ( /\ pc[r] # "idle"
             /\ \/ Len(body[r].messages) = 0
                \/ ExtractPrompt(body[r].messages) = ""
                \/ valves.FAL_KEY = "" ) =>
                (Submits(r) = {} /\ Statuses(r) = {} /\ pc[r] = "returned")

C10_Witness ==
    \E r \in Requests :
        /\ sink[r] # NoSink
        /\ pc[r] = "awaiting_result"
        /\ Submits(r) = {2}
        /\ \E q \in Requests : q # r /\ pc[q] = "returned" /\ Submits(q) = {}

====
